---- MODULE Spec2Model ----
(***************************************************************************)
(* Model of dashboard.py: a Streamlit script that keeps a to-do list and a *)
(* "vibe" setting in st.session_state and mirrors them into two JSON       *)
(* files.  Streamlit re-executes the whole script for every user event;    *)
(* one action of this model is one such event together with the script    *)
(* run (and the run started by st.rerun()) that it causes.                 *)
(*                                                                         *)
(* Python values are tagged records, file contents are token sequences,    *)
(* json.dumps / json.loads are a serializer and a recursive-descent parser *)
(* over those tokens.                                                      *)
(*                                                                         *)
(* Widgets follow Streamlit's keyed-widget rules: a widget created with    *)
(* key=... keeps its value in the session under that key for as long as it *)
(* is rendered; the value= argument only initialises it.  A widget that a  *)
(* run did not render is forgotten when that run ends normally or by       *)
(* st.rerun(); a button is True only in the run its click started.         *)
(***************************************************************************)
EXTENDS Integers, Sequences, FiniteSets, TLC

\* ------------------------------------------------------------------ bounds
MaxTodos == 2       \* longest task list the model builds
MaxPad == 1         \* most spaces typed before or after a task's words
MaxCut == 1         \* longest partial content an interrupted write leaves behind
MaxPeriods == 2     \* most periods in a forecast document
MaxN == 3           \* largest n_periods a call is made with
MaxWords == 2       \* most words in the phrases given to weather_emoji

\* --------------------------------------------------------- Python values
PStr(atoms) == [kind |-> "str", atoms |-> atoms]
PBool(b) == [kind |-> "bool", b |-> b]
PNum == [kind |-> "num"]
PNone == [kind |-> "none"]
PList(items) == [kind |-> "list", items |-> items]
PDict(fields) == [kind |-> "dict", fields |-> fields]
Field(k, v) == [k |-> k, v |-> v]

\* d.get(key): the value of the last field named key, PNone when there is none
HasKey(d, key) == \E n \in 1..Len(d.fields) : d.fields[n].k = key

DictGet(d, key) ==
    IF HasKey(d, key)
    THEN d.fields[CHOOSE n \in 1..Len(d.fields) :
                     /\ d.fields[n].k = key
                     /\ \A m \in (n + 1)..Len(d.fields) : d.fields[m].k # key].v
    ELSE PNone

\* d[key] = v: replaces the value in place, or appends a new field
DictSet(d, key, v) ==
    IF HasKey(d, key)
    THEN PDict([n \in 1..Len(d.fields) |->
                  IF d.fields[n].k = key THEN Field(key, v) ELSE d.fields[n]])
    ELSE PDict(Append(d.fields, Field(key, v)))

\* ------------------------------------------------------------------ JSON
Q == "\""

\* faulty variant: booleans written the way str() spells them
DumpsBoolRepr(b) == IF b THEN <<"True">> ELSE <<"False">>

\* True / False are written as true / false
DumpsBool(b) == IF b THEN <<"true">> ELSE <<"false">>

RECURSIVE Dumps(_)
RECURSIVE DumpsItems(_)
RECURSIVE DumpsFields(_)

DumpsItems(items) ==
    IF items = <<>> THEN <<>>
    ELSE IF Len(items) = 1 THEN Dumps(items[1])
    ELSE Dumps(items[1]) \o <<",">> \o DumpsItems(Tail(items))

DumpsFields(fields) ==
    IF fields = <<>> THEN <<>>
    ELSE LET one == <<Q, fields[1].k, Q, ":">> \o Dumps(fields[1].v)
         IN IF Len(fields) = 1 THEN one
            ELSE one \o <<",">> \o DumpsFields(Tail(fields))

\* json.dumps(data, indent=2), whitespace between tokens left out
Dumps(v) ==
    CASE v.kind = "str" -> <<Q>> \o v.atoms \o <<Q>>
      [] v.kind = "bool" -> DumpsBool(v.b)
      [] v.kind = "num" -> <<"7">>
      [] v.kind = "none" -> <<"null">>
      [] v.kind = "list" -> <<"[">> \o DumpsItems(v.items) \o <<"]">>
      [] v.kind = "dict" -> <<"{">> \o DumpsFields(v.fields) \o <<"}">>

Fail == [ok |-> FALSE, val |-> PNone, rest |-> <<>>]
Parsed(v, rest) == [ok |-> TRUE, val |-> v, rest |-> rest]
Drop(toks, n) == SubSeq(toks, n + 1, Len(toks))

\* a string literal: quote, atoms, closing quote
ParseString(toks) ==
    IF toks = <<>> \/ toks[1] # Q THEN Fail
    ELSE IF \A j \in 2..Len(toks) : toks[j] # Q THEN Fail
    ELSE LET j == CHOOSE j \in 2..Len(toks) :
                     /\ toks[j] = Q
                     /\ \A m \in 2..(j - 1) : toks[m] # Q
         IN Parsed(PStr(SubSeq(toks, 2, j - 1)), Drop(toks, j))

RECURSIVE ParseValue(_)
RECURSIVE ParseItems(_, _)
RECURSIVE ParseFields(_, _)

\* after "[" or ",": value, then "," or "]"
ParseItems(toks, acc) ==
    LET r == ParseValue(toks)
    IN IF ~r.ok \/ r.rest = <<>> THEN Fail
       ELSE IF r.rest[1] = "]" THEN Parsed(PList(Append(acc, r.val)), Tail(r.rest))
       ELSE IF r.rest[1] = "," THEN ParseItems(Tail(r.rest), Append(acc, r.val))
       ELSE Fail

\* after "{" or ",": "key" : value, then "," or "}"
ParseFields(toks, acc) ==
    LET k == ParseString(toks)
    IN IF ~k.ok \/ Len(k.val.atoms) # 1 \/ k.rest = <<>> \/ k.rest[1] # ":" THEN Fail
       ELSE LET r == ParseValue(Tail(k.rest))
                d == DictSet(PDict(acc), k.val.atoms[1], r.val)
            IN IF ~r.ok \/ r.rest = <<>> THEN Fail
               ELSE IF r.rest[1] = "}" THEN Parsed(d, Tail(r.rest))
               ELSE IF r.rest[1] = "," THEN ParseFields(Tail(r.rest), d.fields)
               ELSE Fail

ParseValue(toks) ==
    IF toks = <<>> THEN Fail
    ELSE CASE toks[1] = Q -> ParseString(toks)
           [] toks[1] = "true" -> Parsed(PBool(TRUE), Tail(toks))
           [] toks[1] = "false" -> Parsed(PBool(FALSE), Tail(toks))
           [] toks[1] = "null" -> Parsed(PNone, Tail(toks))
           [] toks[1] = "7" -> Parsed(PNum, Tail(toks))
           [] toks[1] = "[" ->
                IF Len(toks) >= 2 /\ toks[2] = "]"
                THEN Parsed(PList(<<>>), Drop(toks, 2))
                ELSE ParseItems(Tail(toks), <<>>)
           [] toks[1] = "{" ->
                IF Len(toks) >= 2 /\ toks[2] = "}"
                THEN Parsed(PDict(<<>>), Drop(toks, 2))
                ELSE ParseFields(Tail(toks), <<>>)
           [] OTHER -> Fail

\* json.loads(text): the whole text must be one value
Loads(toks) ==
    LET r == ParseValue(toks)
    IN IF r.ok /\ r.rest = <<>> THEN r ELSE Fail

\* ----------------------------------------------------------------- files
VIBES ==
    <<"Soft grind", "Locked in", "CEO mode", "Golden retriever energy",
      "Cozy & calm", "Unhinged (but productive)">>

VibeSet == {VIBES[n] : n \in 1..Len(VIBES)}

NoFile == [exists |-> FALSE, text |-> <<>>]
FileOf(text) == [exists |-> TRUE, text |-> text]

\* faulty variant: an empty object stands in for the default
load_jsonEmpty(file, default) ==
    IF file.exists /\ Loads(file.text).ok THEN Loads(file.text).val ELSE PDict(<<>>)

\* load_json(path, default)
load_json(file, default) ==
    IF file.exists
    THEN IF Loads(file.text).ok THEN Loads(file.text).val ELSE default
    ELSE default

\* save_json(path, data): the file after a write_text that ran to completion
save_json(data) == FileOf(Dumps(data))

Min(a, b) == IF a < b THEN a ELSE b

\* path.write_text opens the file for writing, which empties it, and then
\* writes; a process that dies in between leaves a proper prefix of the text
write_text_interrupted(full, cut) == FileOf(SubSeq(full, 1, Min(cut, Len(full) - 1)))

TODOS_DEFAULT == PList(<<>>)
SETTINGS_DEFAULT == PDict(<<Field("vibe", PStr(<<VIBES[1]>>))>>)

\* --------------------------------------------------------- Python helpers
Truthy(v) ==
    CASE v.kind = "str" -> v.atoms # <<>>
      [] v.kind = "bool" -> v.b
      [] v.kind = "num" -> TRUE
      [] v.kind = "none" -> FALSE
      [] v.kind = "list" -> v.items # <<>>
      [] v.kind = "dict" -> v.fields # <<>>

\* what "for t in v" yields, for the values that can be iterated
Iterable(v) == v.kind \in {"list", "dict", "str"}

IterItems(v) ==
    CASE v.kind = "list" -> v.items
      [] v.kind = "dict" -> [n \in 1..Len(v.fields) |-> PStr(<<v.fields[n].k>>)]
      [] v.kind = "str" -> [n \in 1..Len(v.atoms) |-> PStr(<<v.atoms[n]>>)]
      [] OTHER -> <<>>

\* t[key] for a string key: "" when it succeeds, else the exception raised
SubscriptErr(t, key) ==
    IF t.kind # "dict" THEN "TypeError"
    ELSE IF ~HasKey(t, key) THEN "KeyError"
    ELSE ""

\* faulty variant: an index past the end is clamped to the last element
ListIndexClamped(n, i) ==
    IF 0 <= i /\ i < n THEN i + 1
    ELSE IF i < 0 /\ -n <= i THEN n + i + 1
    ELSE IF i >= n THEN n
    ELSE 0

\* lst[i] for an integer i: the 1-based position addressed, 0 for IndexError
ListIndex(n, i) ==
    IF 0 <= i /\ i < n THEN i + 1
    ELSE IF i < 0 /\ -n <= i THEN n + i + 1
    ELSE 0

Task(text, done) == PDict(<<Field("task", PStr(text)), Field("done", PBool(done))>>)

\* str.strip()
IsSpace(c) == c = " "

RECURSIVE lstrip(_)
lstrip(s) == IF s # <<>> /\ IsSpace(s[1]) THEN lstrip(Tail(s)) ELSE s

RECURSIVE rstrip(_)
rstrip(s) ==
    IF s # <<>> /\ IsSpace(s[Len(s)]) THEN rstrip(SubSeq(s, 1, Len(s) - 1)) ELSE s

strip(s) == rstrip(lstrip(s))

\* ------------------------------------------------- the list operations
\* faulty variant: the text is stored as typed
AppendTaskRaw(todos, new_task) == PList(Append(todos.items, Task(new_task, FALSE)))

\* st.session_state.todos.append({"task": new_task.strip(), "done": False})
AppendTask(todos, new_task) == PList(Append(todos.items, Task(strip(new_task), FALSE)))

\* faulty variant: the test of the comprehension is inverted
RECURSIVE NotDoneInverted(_)
NotDoneInverted(items) ==
    IF items = <<>> THEN <<>>
    ELSE IF ~Truthy(DictGet(items[1], "done")) THEN NotDoneInverted(Tail(items))
    ELSE <<items[1]>> \o NotDoneInverted(Tail(items))

\* [t for t in st.session_state.todos if not t["done"]]
RECURSIVE NotDone(_)
NotDone(items) ==
    IF items = <<>> THEN <<>>
    ELSE IF Truthy(DictGet(items[1], "done")) THEN NotDone(Tail(items))
    ELSE <<items[1]>> \o NotDone(Tail(items))

\* faulty variant: the flag is written to every task
ToggleAtAll(todos, i, done) ==
    IF ListIndex(Len(todos.items), i) = 0 THEN [err |-> "IndexError", val |-> todos]
    ELSE [err |-> "",
          val |-> PList([n \in 1..Len(todos.items) |->
                           DictSet(todos.items[n], "done", PBool(done))])]

\* st.session_state.todos[i]["done"] = done
ToggleAt(todos, i, done) ==
    LET p == ListIndex(Len(todos.items), i)
    IN IF p = 0 THEN [err |-> "IndexError", val |-> todos]
       ELSE [err |-> "",
             val |-> PList([todos.items EXCEPT ![p] = DictSet(@, "done", PBool(done))])]

\* st.session_state.todos.pop(i)
PopAt(todos, i) ==
    LET p == ListIndex(Len(todos.items), i)
        n == Len(todos.items)
    IN IF p = 0 THEN [err |-> "IndexError", val |-> todos]
       ELSE [err |-> "",
             val |-> PList(SubSeq(todos.items, 1, p - 1) \o SubSeq(todos.items, p + 1, n))]

\* ------------------------------------------------------------- weather
\* an integer as json gives it (a temperature)
PInt(n) == [kind |-> "int", n |-> n]

\* str.lower()
UpperCase ==
    <<"A", "B", "C", "D", "E", "F", "G", "H", "I", "J", "K", "L", "M",
      "N", "O", "P", "Q", "R", "S", "T", "U", "V", "W", "X", "Y", "Z">>
LowerCase ==
    <<"a", "b", "c", "d", "e", "f", "g", "h", "i", "j", "k", "l", "m",
      "n", "o", "p", "q", "r", "s", "t", "u", "v", "w", "x", "y", "z">>
lowerChar(c) ==
    IF \E n \in 1..Len(UpperCase) : UpperCase[n] = c
    THEN LowerCase[CHOOSE n \in 1..Len(UpperCase) : UpperCase[n] = c]
    ELSE c

\* faulty variant: the text is compared as it came
lowerKeepsCase(s) == s

lower(s) == [n \in 1..Len(s) |-> lowerChar(s[n])]

\* k in s, for strings
In(k, s) == \E n \in 0..(Len(s) - Len(k)) : SubSeq(s, n + 1, n + Len(k)) = k

\* the icons weather_emoji returns, by name; the fire icon of lines 71 and 79
\* is "heat"
Icons ==
    {"storm", "tornado", "snow", "hail", "rain", "fog", "wind", "cloud",
     "heat", "sun", "cold", "neutral"}

\* lines 48-81; short_forecast is a string or None, temp_f an integer or None
weather_emoji(short_forecast, temp_f) ==
    LET s == lower(IF Truthy(short_forecast) THEN short_forecast.atoms ELSE <<>>)
    IN  IF \/ In(<<"t", "h", "u", "n", "d", "e", "r">>, s)
           \/ In(<<"t", "-", "s", "t", "o", "r", "m">>, s)
           \/ In(<<"s", "t", "o", "r", "m">>, s)
        THEN "storm"
        ELSE IF \/ In(<<"t", "o", "r", "n", "a", "d", "o">>, s)
        THEN "tornado"
        ELSE IF \/ In(<<"s", "n", "o", "w">>, s)
                \/ In(<<"f", "l", "u", "r", "r">>, s)
                \/ In(<<"s", "l", "e", "e", "t">>, s)
                \/ In(<<"i", "c", "e">>, s)
                \/ In(<<"f", "r", "e", "e", "z", "i", "n", "g">>, s)
        THEN "snow"
        ELSE IF \/ In(<<"h", "a", "i", "l">>, s)
        THEN "hail"
        ELSE IF \/ In(<<"r", "a", "i", "n">>, s)
                \/ In(<<"s", "h", "o", "w", "e", "r", "s">>, s)
                \/ In(<<"d", "r", "i", "z", "z", "l", "e">>, s)
        THEN "rain"
        ELSE IF \/ In(<<"f", "o", "g">>, s)
                \/ In(<<"h", "a", "z", "e">>, s)
                \/ In(<<"m", "i", "s", "t">>, s)
                \/ In(<<"s", "m", "o", "k", "e">>, s)
        THEN "fog"
        ELSE IF \/ In(<<"w", "i", "n", "d">>, s)
                \/ In(<<"b", "r", "e", "e", "z", "y">>, s)
                \/ In(<<"g", "u", "s", "t">>, s)
        THEN "wind"
        ELSE IF \/ In(<<"c", "l", "o", "u", "d">>, s)
                \/ In(<<"o", "v", "e", "r", "c", "a", "s", "t">>, s)
        THEN "cloud"
        ELSE IF \/ In(<<"s", "u", "n">>, s)
                \/ In(<<"c", "l", "e", "a", "r">>, s)
                \/ In(<<"f", "a", "i", "r">>, s)
        THEN IF temp_f.kind # "none" /\ temp_f.n >= 85 THEN "heat" ELSE "sun"
        ELSE IF temp_f.kind # "none" /\ temp_f.n <= 32 THEN "cold"
        ELSE IF temp_f.kind # "none" /\ temp_f.n >= 90 THEN "heat"
        ELSE "neutral"

\* an answer to requests.get(url, timeout=10): net is "ok" when a response
\* came back, "error" or "timeout" when the call raised instead
Resp(net, status, body) == [net |-> net, status |-> status, body |-> body]
NotJson == [kind |-> "notjson"]

\* v[k1][k2]
Subscript2(v, k1, k2) ==
    IF SubscriptErr(v, k1) # "" THEN [err |-> SubscriptErr(v, k1), val |-> PNone]
    ELSE IF SubscriptErr(DictGet(v, k1), k2) # ""
    THEN [err |-> SubscriptErr(DictGet(v, k1), k2), val |-> PNone]
    ELSE [err |-> "", val |-> DictGet(DictGet(v, k1), k2)]

\* p.get(key, default)
GetOr(p, key, default) == IF HasKey(p, key) THEN DictGet(p, key) ELSE default

\* faulty variant: the whole list is taken
SliceToAll(items, n) == items

\* lst[:n]
SliceTo(items, n) ==
    IF n >= 0 THEN SubSeq(items, 1, Min(n, Len(items)))
    ELSE SubSeq(items, 1, Len(items) + n)

\* lines 107-114
Cleaned(p) ==
    PDict(<<Field("name", GetOr(p, "name", PStr(<<"Forecast">>))),
            Field("temp", GetOr(p, "temperature", PNone)),
            Field("temp_unit", GetOr(p, "temperatureUnit", PStr(<<"F">>))),
            Field("short", GetOr(p, "shortForecast", PStr(<<>>))),
            Field("wind", GetOr(p, "windSpeed", PStr(<<>>))),
            Field("detail", GetOr(p, "detailedForecast", PStr(<<>>)))>>)

\* what a call of get_nyc_forecast_periods comes to: the pair it returns
\* (periods, err), or the exception that leaves it (exc), and the requests it
\* sent, in order
Returned(sent, periods, err) == [sent |-> sent, periods |-> periods, err |-> err, exc |-> ""]
Raised(sent, exc) == [sent |-> sent, periods |-> PNone, err |-> "", exc |-> exc]

ERR_LOCATION == "Could not load weather location"
ERR_FORECAST == "Could not load forecast"

\* lines 86-115; net holds what the service answers to the two requests
get_nyc_forecast_periods(n_periods, net) ==
    LET r1 == net.points
        forecast_url == Subscript2(r1.body, "properties", "forecast")
        r2 == net.forecast
        periods == Subscript2(r2.body, "properties", "periods")
        one == <<"points">>
        two == <<"points", "forecast">>
    IN  IF r1.net # "ok" THEN Raised(one, "RequestException")
        ELSE IF r1.status # 200 THEN Returned(one, PNone, ERR_LOCATION)
        ELSE IF r1.body = NotJson THEN Raised(one, "JSONDecodeError")
        ELSE IF forecast_url.err # "" THEN Raised(one, forecast_url.err)
        ELSE IF forecast_url.val.kind # "str" THEN Raised(one, "RequestException")
        ELSE IF r2.net # "ok" THEN Raised(two, "RequestException")
        ELSE IF r2.status # 200 THEN Returned(two, PNone, ERR_FORECAST)
        ELSE IF r2.body = NotJson THEN Raised(two, "JSONDecodeError")
        ELSE IF periods.err # "" THEN Raised(two, periods.err)
        ELSE IF periods.val.kind # "list" THEN Raised(two, "TypeError")
        ELSE LET taken == SliceTo(periods.val.items, n_periods)
             IN IF \E j \in 1..Len(taken) : taken[j].kind # "dict"
                THEN Raised(two, "AttributeError")
                ELSE Returned(two, PList([j \in 1..Len(taken) |-> Cleaned(taken[j])]), "")

\* ----------------------------------------------------------------- state
VARIABLES
    todosFile,      \* todos.json:    [exists, text]
    settingsFile,   \* settings.json: [exists, text]
    inSession,      \* "todos" / "settings" are in st.session_state
    todos,          \* st.session_state.todos
    settings,       \* st.session_state.settings
    cb,             \* value kept for the checkbox with key done_i
    page,           \* what the last script run rendered
    last,           \* the last event and how its script run ended
    wx,             \* the last call of a weather function: arguments and result
    tabs            \* two browser tabs on the same files: their sessions

vars == <<todosFile, settingsFile, inSession, todos, settings, cb, page, last, wx, tabs>>

Positions == 0..(MaxTodos - 1)
NoWidgets == [i \in Positions |-> "absent"]
BlankPage == [sel |-> FALSE, btn |-> FALSE, cbs |-> 0, dels |-> 0]

NoCall == [op |-> "none"]

\* a session of its own for each tab: what st.session_state and the page hold
Tabs == {1, 2}
NoSession ==
    [inSession |-> FALSE, todos |-> PNone, settings |-> PNone, cb |-> NoWidgets,
     page |-> BlankPage]
NoTabs ==
    [sess |-> [s \in Tabs |-> NoSession], who |-> 0, op |-> "init", out |-> "ok",
     wrote |-> {}]

\* user events; an event carries the widget it acts on and the value entered
NoEvent == [op |-> "refresh", idx |-> 0, text |-> <<>>, vibe |-> ""]
Event(op, idx, text, vibe) == [op |-> op, idx |-> idx, text |-> text, vibe |-> vibe]

\* the state a script run works on
RunState(crashAt, cut) ==
    [todos |-> todos, settings |-> settings, tf |-> todosFile, sf |-> settingsFile,
     cb |-> cb, page |-> BlankPage, status |-> "run", reruns |-> 0, wrote |-> {},
     saves |-> 0, crashAt |-> crashAt, cut |-> cut]

Stop(R, status) == [R EXCEPT !.status = status]

\* a save_json call inside a run; the crashAt-th save of the action (0: none)
\* is the one during which the process dies
Save(R, which, data) ==
    LET dies == R.saves + 1 = R.crashAt
        f == IF dies THEN write_text_interrupted(Dumps(data), R.cut) ELSE save_json(data)
        R1 == IF which = "todos" THEN [R EXCEPT !.tf = f] ELSE [R EXCEPT !.sf = f]
    IN [R1 EXCEPT !.wrote = @ \cup {which},
                  !.saves = @ + 1,
                  !.status = IF dies THEN "crash" ELSE @]

\* ------------------------------------------------- the script, top to bottom
\* lines 120-124
InitSessionState(R, has) ==
    IF has THEN R
    ELSE [R EXCEPT !.todos = load_json(R.tf, TODOS_DEFAULT),
                   !.settings = load_json(R.sf, SETTINGS_DEFAULT)]

\* answers of api.weather.gov: the points document, a forecast period
PointsBody ==
    PDict(<<Field("properties",
                  PDict(<<Field("forecast", PStr(<<"https://api.weather.gov/forecast">>))>>))>>)

Period(name, temperature, shortForecast) ==
    PDict(<<Field("name", PStr(<<name>>)),
            Field("temperature", temperature),
            Field("temperatureUnit", PStr(<<"F">>)),
            Field("shortForecast", PStr(shortForecast)),
            Field("windSpeed", PStr(<<"5 mph">>)),
            Field("detailedForecast", PStr(<<"...">>))>>)

ForecastBody(periods) ==
    PDict(<<Field("properties", PDict(<<Field("periods", PList(periods))>>))>>)

Sunny == <<"S", "u", "n", "n", "y">>

NetOk ==
    [points |-> Resp("ok", 200, PointsBody),
     forecast |-> Resp("ok", 200, ForecastBody(<<Period("Today", PInt(70), Sunny)>>))]
NetNoLocation == [NetOk EXCEPT !.points = Resp("ok", 503, NotJson)]
NetDown == [NetOk EXCEPT !.points = Resp("error", 0, NotJson)]

\* lines 142-144: requests.get raises on a network error or a timeout; a
\* non-200 answer is returned as (None, message) and shown as a warning
WeatherOutcomes == {NetOk, NetNoLocation, NetDown}

\* what the weather block does to the run: "shown" (cards or a warning), or
\* the exception that leaves get_nyc_forecast_periods
WeatherEffect(w) ==
    LET r == get_nyc_forecast_periods(3, w)
    IN IF r.exc # "" THEN r.exc ELSE "shown"

WeatherEffectOf == [w \in WeatherOutcomes |-> WeatherEffect(w)]

WeatherSection(R, effect) ==
    IF R.status # "run" THEN R
    ELSE IF effect # "shown" THEN Stop(R, effect)
    ELSE R

\* VIBES.index(saved_vibe) if saved_vibe in VIBES else 0
DefaultIndex(saved_vibe) ==
    IF saved_vibe.kind = "str" /\ Len(saved_vibe.atoms) = 1
       /\ saved_vibe.atoms[1] \in VibeSet
    THEN (CHOOSE n \in 1..Len(VIBES) : VIBES[n] = saved_vibe.atoms[1]) - 1
    ELSE 0

\* faulty variant: the widget hands back whatever it was sent
selectboxUnchecked(options, index, pick) == pick

\* st.selectbox(label, options, index): the option the user picked, or the
\* option at index when the user picked none of the options
selectbox(options, index, pick) ==
    IF \E n \in 1..Len(options) : options[n] = pick THEN pick ELSE options[index + 1]

\* faulty variant: the file is written whatever the vibe was
SetVibeAlways(R, vibe) ==
    LET R1 == [R EXCEPT !.settings = DictSet(@, "vibe", PStr(<<vibe>>))]
    IN Save(R1, "settings", R1.settings)

\* faulty variant: a saved vibe outside VIBES is left alone
SetVibeKeepsRaw(R, vibe) ==
    IF PStr(<<vibe>>) # DictGet(R.settings, "vibe")
       /\ \E n \in 1..Len(VIBES) : DictGet(R.settings, "vibe") = PStr(<<VIBES[n]>>)
    THEN LET R1 == [R EXCEPT !.settings = DictSet(@, "vibe", PStr(<<vibe>>))]
         IN Save(R1, "settings", R1.settings)
    ELSE R

\* lines 166-168
SetVibe(R, vibe) ==
    IF PStr(<<vibe>>) # DictGet(R.settings, "vibe")
    THEN LET R1 == [R EXCEPT !.settings = DictSet(@, "vibe", PStr(<<vibe>>))]
         IN Save(R1, "settings", R1.settings)
    ELSE R

\* lines 161-170
VibeSection(R, ev) ==
    IF R.status # "run" THEN R
    ELSE IF R.settings.kind # "dict" THEN Stop(R, "AttributeError")
    ELSE LET saved_vibe == IF HasKey(R.settings, "vibe")
                           THEN DictGet(R.settings, "vibe")
                           ELSE PStr(<<VIBES[1]>>)
             default_index == DefaultIndex(saved_vibe)
             vibe == selectbox(VIBES, default_index,
                               IF ev.op = "pick" THEN ev.vibe ELSE "")
         IN SetVibe([R EXCEPT !.page.sel = TRUE], vibe)

\* lines 182-187
AddButton(R, new_task) ==
    IF strip(new_task) # <<>>
    THEN IF R.todos.kind # "list" THEN Stop(R, "AttributeError")
         ELSE LET R1 == [R EXCEPT !.todos = AppendTask(@, new_task)]
                  R2 == Save(R1, "todos", R1.todos)
              IN IF R2.status = "run" THEN Stop(R2, "rerun") ELSE R2
    ELSE R

\* lines 189-193
ClearAllButton(R) ==
    LET R1 == [R EXCEPT !.todos = PList(<<>>)]
        R2 == Save(R1, "todos", R1.todos)
    IN IF R2.status = "run" THEN Stop(R2, "rerun") ELSE R2

\* the exception the comprehension of line 197 raises, "" when it raises none
ComprehensionErr(v) ==
    IF ~Iterable(v) THEN "TypeError"
    ELSE LET items == IterItems(v)
             bad == {n \in 1..Len(items) : SubscriptErr(items[n], "done") # ""}
         IN IF bad = {} THEN ""
            ELSE SubscriptErr(items[CHOOSE n \in bad : \A m \in bad : n <= m], "done")

\* lines 195-199
ClearCompletedButton(R) ==
    IF ComprehensionErr(R.todos) # "" THEN Stop(R, ComprehensionErr(R.todos))
    ELSE LET R1 == [R EXCEPT !.todos = PList(NotDone(IterItems(@)))]
             R2 == Save(R1, "todos", R1.todos)
         IN IF R2.status = "run" THEN Stop(R2, "rerun") ELSE R2

\* lines 178-199
Buttons(R, ev) ==
    IF R.status # "run" THEN R
    ELSE LET R1 == [R EXCEPT !.page.btn = TRUE]
         IN CASE ev.op = "add" -> AddButton(R1, ev.text)
              [] ev.op = "clearAll" -> ClearAllButton(R1)
              [] ev.op = "clearCompleted" -> ClearCompletedButton(R1)
              [] OTHER -> R1

\* st.checkbox("", value=..., key=f"done_{i}"): the value kept under the key,
\* initialised from value= when the key holds none
checkbox(kept, value) == IF kept = "absent" THEN value ELSE kept = "true"

Kept(b) == IF b THEN "true" ELSE "false"

\* faulty variant: the file is written before the flag is assigned
ToggleStepSaveFirst(R, i, done) ==
    IF ToggleAt(R.todos, i, done).err # "" THEN Stop(R, ToggleAt(R.todos, i, done).err)
    ELSE LET R1 == Save(R, "todos", R.todos)
         IN [R1 EXCEPT !.todos = ToggleAt(@, i, done).val]

\* lines 212-213, for any integer i
ToggleStep(R, i, done) ==
    IF ToggleAt(R.todos, i, done).err # "" THEN Stop(R, ToggleAt(R.todos, i, done).err)
    ELSE LET R1 == [R EXCEPT !.todos = ToggleAt(@, i, done).val]
         IN Save(R1, "todos", R1.todos)

\* lines 220-222, for any integer i
DeleteStep(R, i) ==
    IF PopAt(R.todos, i).err # "" THEN Stop(R, PopAt(R.todos, i).err)
    ELSE LET R1 == [R EXCEPT !.todos = PopAt(@, i).val]
             R2 == Save(R1, "todos", R1.todos)
         IN IF R2.status = "run" THEN Stop(R2, "rerun") ELSE R2

\* lines 210-213
CheckboxColumn(R, i) ==
    LET t == R.todos.items[i + 1]
        done == checkbox(R.cb[i], Truthy(DictGet(t, "done")))
        R1 == [R EXCEPT !.cb[i] = Kept(done), !.page.cbs = i + 1]
    IN IF PBool(done) # DictGet(t, "done") THEN ToggleStep(R1, i, done) ELSE R1

\* lines 218-222
DeleteColumn(R, i, ev) ==
    LET R1 == [R EXCEPT !.page.dels = i + 1]
    IN IF ev.op = "del" /\ ev.idx = i THEN DeleteStep(R1, i) ELSE R1

\* lines 206-222, from position i on
RECURSIVE RenderFrom(_, _, _)
RenderFrom(R, i, ev) ==
    IF R.status # "run" \/ i >= Len(IterItems(R.todos)) THEN R
    ELSE LET t == IterItems(R.todos)[i + 1]
         IN IF SubscriptErr(t, "done") # "" THEN Stop(R, SubscriptErr(t, "done"))
            ELSE LET R1 == CheckboxColumn(R, i)
                 IN IF R1.status # "run" THEN R1
                    ELSE IF SubscriptErr(t, "task") # "" THEN Stop(R1, "KeyError")
                    ELSE IF DictGet(t, "task").kind # "str" THEN Stop(R1, "TypeError")
                    ELSE RenderFrom(DeleteColumn(R1, i, ev), i + 1, ev)

\* lines 203-222
TaskList(R, ev) ==
    IF R.status # "run" THEN R
    ELSE IF ~Truthy(R.todos) THEN R
    ELSE IF ~Iterable(R.todos) THEN Stop(R, "TypeError")
    ELSE RenderFrom(R, 0, ev)

\* when a run ends normally or by st.rerun(), the widgets it did not render
\* are forgotten; a run that ends by an exception forgets none
EndOfRun(R) ==
    IF R.status \in {"run", "rerun"}
    THEN [R EXCEPT !.cb = [i \in Positions |-> IF i < R.page.cbs THEN @[i] ELSE "absent"]]
    ELSE R

\* one execution of the script
ScriptRun(R, has, ev, effect) ==
    EndOfRun(TaskList(Buttons(VibeSection(
        WeatherSection(InitSessionState(R, has), effect), ev), ev), ev))

\* the browser sends the clicked checkbox's new value with the event
Click(R, ev) ==
    IF ev.op = "check"
    THEN [R EXCEPT !.cb[ev.idx] = Kept(~(@ = "true"))]
    ELSE R

Outcome(R) == IF R.status = "run" THEN "ok" ELSE R.status

\* the state after an action
Becomes(R, ev) ==
    /\ todosFile' = R.tf
    /\ settingsFile' = R.sf
    /\ inSession' = (R.status # "crash")
    /\ todos' = IF R.status = "crash" THEN PNone ELSE R.todos
    /\ settings' = IF R.status = "crash" THEN PNone ELSE R.settings
    /\ cb' = IF R.status = "crash" THEN NoWidgets ELSE R.cb
    /\ page' = IF R.status = "crash" THEN BlankPage ELSE R.page
    /\ last' = [op |-> ev.op, idx |-> ev.idx, text |-> ev.text, vibe |-> ev.vibe,
                out |-> Outcome(R), reruns |-> R.reruns, wrote |-> R.wrote,
                changed |-> IF ev.op = "open" \/ R.status = "crash" THEN {}
                            ELSE {d \in {"todos"} : R.todos # todos}
                                 \cup {d \in {"settings"} : R.settings # settings}]
    /\ UNCHANGED <<wx, tabs>>

\* ---------------------------------------------------------------- inputs
\* what can be typed into the "Add a task" box: nothing, spaces only, or
\* words (one word, or two with a space inside) with spaces around them
Words == {<<"a">>, <<"a", " ", "a">>}
Spaces(n) == [i \in 1..n |-> " "]
Texts ==
    {Spaces(n) : n \in 0..MaxPad}
    \cup {Spaces(l) \o w \o Spaces(r) : l \in 0..MaxPad, r \in 0..MaxPad, w \in Words}
NotAVibe == "not-a-real-vibe"

\* what may be on disk when a session starts: nothing, documents the program
\* wrote, documents cut short, and documents of another shape
InitTodosFiles ==
    {NoFile,
     save_json(PList(<<>>)),
     save_json(PList(<<Task(<<"a">>, TRUE)>>)),
     FileOf(<<"[", "{">>),
     FileOf(<<"{", "}">>),
     FileOf(<<"7">>),
     save_json(PList(<<PDict(<<Field("text", PStr(<<"a">>)), Field("done", PBool(FALSE))>>)>>))}

InitSettingsFiles ==
    {NoFile,
     save_json(PDict(<<Field("vibe", PStr(<<VIBES[3]>>))>>)),
     save_json(PDict(<<Field("vibe", PStr(<<NotAVibe>>))>>)),
     FileOf(<<"{", Q>>),
     FileOf(<<"[", "]">>),
     FileOf(<<"{", "}">>)}

Init ==
    /\ todosFile \in InitTodosFiles
    /\ settingsFile \in InitSettingsFiles
    /\ inSession = FALSE
    /\ todos = PNone
    /\ settings = PNone
    /\ cb = NoWidgets
    /\ page = BlankPage
    /\ last = [op |-> "init", idx |-> 0, text |-> <<>>, vibe |-> "",
               out |-> "ok", reruns |-> 0, wrote |-> {}, changed |-> {}]
    /\ wx = NoCall
    /\ tabs = NoTabs

\* --------------------------------------------------------------- actions
\* the widget an event acts on was rendered by the last run of the session
AllowedIn(T, ev) ==
    CASE ev.op = "open" -> TRUE
      [] ev.op = "refresh" -> T.inSession
      [] ev.op = "pick" -> T.inSession /\ T.page.sel
      [] ev.op = "add" ->
           /\ T.inSession /\ T.page.btn
           /\ T.todos.kind = "list" => Len(T.todos.items) < MaxTodos
      [] ev.op \in {"clearAll", "clearCompleted"} -> T.inSession /\ T.page.btn
      [] ev.op = "check" -> T.inSession /\ ev.idx < T.page.cbs
      [] ev.op = "del" -> T.inSession /\ ev.idx < T.page.dels

Allowed(ev) ==
    AllowedIn([inSession |-> inSession, todos |-> todos, settings |-> settings,
               cb |-> cb, page |-> page], ev)

Start(ev, crashAt, cut) ==
    IF ev.op = "open"
    THEN [RunState(crashAt, cut) EXCEPT !.cb = NoWidgets]
    ELSE RunState(crashAt, cut)

\* the run an event starts in the session state R0 and, after st.rerun(), the
\* run that follows it: the states it can end in, one for each weather answer
HandleFrom(R0, ev, W) ==
    LET effects == {WeatherEffectOf[w] : w \in W}
    IN UNION {IF A.status = "rerun"
              THEN {ScriptRun([A EXCEPT !.status = "run", !.reruns = 1,
                                        !.page = BlankPage],
                              TRUE, NoEvent, e2) : e2 \in effects}
              ELSE {A} :
              A \in {ScriptRun(Click(R0, ev), ev.op # "open", ev, e1) : e1 \in effects}}

\* the same for the session of the state variables; the crashAt-th save_json
\* of the two runs is interrupted (0: none is)
Handle(ev, crashAt, cut, W) == HandleFrom(Start(ev, crashAt, cut), ev, W)

\* a browser opens the page: a new session, and the first script run
Open ==
    \E ev \in {Event("open", 0, <<>>, "")} :
        /\ Allowed(ev)
        /\ \E R \in Handle(ev, 0, 0, WeatherOutcomes) : Becomes(R, ev)

\* a run with no widget event
Refresh ==
    \E ev \in {NoEvent} :
        /\ Allowed(ev)
        /\ \E R \in Handle(ev, 0, 0, WeatherOutcomes) : Becomes(R, ev)

PickVibe ==
    \E ev \in {Event("pick", 0, <<>>, v) : v \in VibeSet} :
        /\ Allowed(ev)
        /\ \E R \in Handle(ev, 0, 0, WeatherOutcomes) : Becomes(R, ev)

Add ==
    \E ev \in {Event("add", 0, t, "") : t \in Texts} :
        /\ Allowed(ev)
        /\ \E R \in Handle(ev, 0, 0, WeatherOutcomes) : Becomes(R, ev)

ClearAll ==
    \E ev \in {Event("clearAll", 0, <<>>, "")} :
        /\ Allowed(ev)
        /\ \E R \in Handle(ev, 0, 0, WeatherOutcomes) : Becomes(R, ev)

ClearCompleted ==
    \E ev \in {Event("clearCompleted", 0, <<>>, "")} :
        /\ Allowed(ev)
        /\ \E R \in Handle(ev, 0, 0, WeatherOutcomes) : Becomes(R, ev)

Check ==
    \E ev \in {Event("check", i, <<>>, "") : i \in Positions} :
        /\ Allowed(ev)
        /\ \E R \in Handle(ev, 0, 0, WeatherOutcomes) : Becomes(R, ev)

Delete ==
    \E ev \in {Event("del", i, <<>>, "") : i \in Positions} :
        /\ Allowed(ev)
        /\ \E R \in Handle(ev, 0, 0, WeatherOutcomes) : Becomes(R, ev)

UserEvents ==
    {Event("open", 0, <<>>, ""), NoEvent, Event("clearAll", 0, <<>>, ""),
     Event("clearCompleted", 0, <<>>, "")}
    \cup {Event("pick", 0, <<>>, v) : v \in VibeSet}
    \cup {Event("add", 0, t, "") : t \in Texts}
    \cup {Event("check", i, <<>>, "") : i \in Positions}
    \cup {Event("del", i, <<>>, "") : i \in Positions}

\* the process dies inside one of the save_json calls of an action
CrashDuringSave ==
    \E ev \in UserEvents :
        /\ Allowed(ev)
        /\ \E N \in Handle(ev, 0, 0, {NetOk}) :
             \E n \in 1..N.saves, cut \in 0..MaxCut :
               \E R \in Handle(ev, n, cut, {NetOk}) :
                 /\ R.status = "crash"
                 /\ Becomes(R, ev)

Next ==
    \/ Open
    \/ Refresh
    \/ PickVibe
    \/ Add
    \/ ClearAll
    \/ ClearCompleted
    \/ Check
    \/ Delete
    \/ CrashDuringSave

Spec == Init /\ [][Next]_vars

\* ------------------------------------------------- the weather functions
\* condition texts: single words, one for every keyword of weather_emoji and a
\* few that hold none, and phrases of up to MaxWords words
ConditionWords ==
    {<<"T", "h", "u", "n", "d", "e", "r">>,
     <<"T", "-", "s", "t", "o", "r", "m">>,
     <<"S", "t", "o", "r", "m">>,
     <<"T", "o", "r", "n", "a", "d", "o">>,
     <<"S", "n", "o", "w">>,
     <<"F", "l", "u", "r", "r", "i", "e", "s">>,
     <<"F", "l", "u", "r", "r", "y">>,
     <<"S", "l", "e", "e", "t">>,
     <<"I", "c", "e">>,
     <<"F", "r", "e", "e", "z", "i", "n", "g">>,
     <<"H", "a", "i", "l">>,
     <<"R", "a", "i", "n">>,
     <<"S", "h", "o", "w", "e", "r", "s">>,
     <<"D", "r", "i", "z", "z", "l", "e">>,
     <<"F", "o", "g">>,
     <<"H", "a", "z", "e">>,
     <<"M", "i", "s", "t">>,
     <<"S", "m", "o", "k", "e">>,
     <<"W", "i", "n", "d">>,
     <<"B", "r", "e", "e", "z", "y">>,
     <<"G", "u", "s", "t">>,
     <<"C", "l", "o", "u", "d", "y">>,
     <<"O", "v", "e", "r", "c", "a", "s", "t">>,
     <<"S", "u", "n", "n", "y">>,
     <<"C", "l", "e", "a", "r">>,
     <<"F", "a", "i", "r">>,
     <<"N", "i", "c", "e">>,
     <<"D", "r", "y">>,
     <<"H", "A", "I", "L">>}

PhraseWords ==
    {<<"S", "t", "o", "r", "m">>,
     <<"T", "o", "r", "n", "a", "d", "o">>,
     <<"S", "n", "o", "w">>,
     <<"H", "a", "i", "l">>,
     <<"R", "a", "i", "n">>,
     <<"F", "o", "g">>,
     <<"W", "i", "n", "d">>,
     <<"C", "l", "o", "u", "d", "y">>,
     <<"S", "u", "n", "n", "y">>,
     <<"D", "r", "y">>}

RECURSIVE Phrases(_)
Phrases(k) ==
    IF k = 1 THEN PhraseWords
    ELSE {p \o <<" ">> \o w : p \in Phrases(k - 1), w \in PhraseWords}

ShortForecasts ==
    {PNone, PStr(<<>>)}
    \cup {PStr(t) : t \in ConditionWords \cup UNION {Phrases(k) : k \in 1..MaxWords}}

Temperatures == {PNone} \cup {PInt(t) : t \in {20, 32, 33, 84, 85, 89, 90, 95}}

\* periods of a forecast document: complete, with no field, with some fields
PeriodKinds ==
    {Period("Today", PInt(70), Sunny),
     PDict(<<>>),
     PDict(<<Field("name", PStr(<<"Tonight">>)), Field("temperature", PNone)>>)}

PeriodLists == UNION {[1..k -> PeriodKinds] : k \in 0..MaxPeriods}

PointsAnswers ==
    {Resp("ok", 200, PointsBody),
     Resp("ok", 404, NotJson),
     Resp("error", 0, NotJson),
     Resp("timeout", 0, NotJson),
     Resp("ok", 200, NotJson),
     Resp("ok", 200, PDict(<<>>))}

ForecastAnswers ==
    {Resp("ok", 200, ForecastBody(l)) : l \in PeriodLists}
    \cup {Resp("ok", 503, NotJson),
          Resp("error", 0, NotJson),
          Resp("timeout", 0, NotJson),
          Resp("ok", 200, NotJson),
          Resp("ok", 200, PDict(<<>>)),
          Resp("ok", 200, ForecastBody(<<PNone>>))}

\* the calls to make: the function and its arguments
WeatherCalls ==
    {[op |-> "call fetch", n |-> n, net |-> [points |-> p, forecast |-> f]] :
        n \in 1..MaxN, p \in PointsAnswers, f \in ForecastAnswers}
    \cup {[op |-> "call classify", short |-> s, temp |-> t] :
             s \in ShortForecasts, t \in Temperatures}

InitWeather ==
    /\ todosFile = NoFile
    /\ settingsFile = NoFile
    /\ inSession = FALSE
    /\ todos = PNone
    /\ settings = PNone
    /\ cb = NoWidgets
    /\ page = BlankPage
    /\ last = [op |-> "init", idx |-> 0, text |-> <<>>, vibe |-> "",
               out |-> "ok", reruns |-> 0, wrote |-> {}, changed |-> {}]
    /\ wx \in WeatherCalls
    /\ tabs = NoTabs

\* get_nyc_forecast_periods is called and comes back
Fetch ==
    /\ wx.op = "call fetch"
    /\ wx' = [op |-> "fetch", n |-> wx.n, net |-> wx.net,
              res |-> get_nyc_forecast_periods(wx.n, wx.net)]
    /\ UNCHANGED <<todosFile, settingsFile, inSession, todos, settings, cb, page, last,
                   tabs>>

\* weather_emoji is called and comes back
Classify ==
    /\ wx.op = "call classify"
    /\ wx' = [op |-> "classify", short |-> wx.short, temp |-> wx.temp,
              emo |-> weather_emoji(wx.short, wx.temp)]
    /\ UNCHANGED <<todosFile, settingsFile, inSession, todos, settings, cb, page, last,
                   tabs>>

NextWeather ==
    \/ Fetch
    \/ Classify

SpecWeather == InitWeather /\ [][NextWeather]_vars

\* ------------------------------------------- two tabs on the same files
\* what is typed into the "Add a task" box of a tab
TabTexts == Words

\* the state a run in tab s starts with: its own session, the shared files
TabStart(s, ev) ==
    [RunState(0, 0) EXCEPT !.todos = tabs.sess[s].todos,
                           !.settings = tabs.sess[s].settings,
                           !.cb = IF ev.op = "open" THEN NoWidgets ELSE tabs.sess[s].cb]

TabHandle(s, ev) == HandleFrom(TabStart(s, ev), ev, {NetOk})

TabBecomes(s, R, ev) ==
    /\ todosFile' = R.tf
    /\ settingsFile' = R.sf
    /\ tabs' = [sess |-> [tabs.sess EXCEPT ![s] =
                             [inSession |-> TRUE, todos |-> R.todos,
                              settings |-> R.settings, cb |-> R.cb, page |-> R.page]],
                who |-> s, op |-> ev.op, out |-> Outcome(R), wrote |-> R.wrote]
    /\ UNCHANGED <<inSession, todos, settings, cb, page, last, wx>>

InitTabs ==
    /\ todosFile = NoFile
    /\ settingsFile = NoFile
    /\ inSession = FALSE
    /\ todos = PNone
    /\ settings = PNone
    /\ cb = NoWidgets
    /\ page = BlankPage
    /\ last = [op |-> "init", idx |-> 0, text |-> <<>>, vibe |-> "",
               out |-> "ok", reruns |-> 0, wrote |-> {}, changed |-> {}]
    /\ wx = NoCall
    /\ tabs = NoTabs

TabOpen ==
    \E s \in Tabs, ev \in {Event("open", 0, <<>>, "")} :
        /\ AllowedIn(tabs.sess[s], ev)
        /\ \E R \in TabHandle(s, ev) : TabBecomes(s, R, ev)

TabAdd ==
    \E s \in Tabs, ev \in {Event("add", 0, t, "") : t \in TabTexts} :
        /\ AllowedIn(tabs.sess[s], ev)
        /\ \E R \in TabHandle(s, ev) : TabBecomes(s, R, ev)

TabClearAll ==
    \E s \in Tabs, ev \in {Event("clearAll", 0, <<>>, "")} :
        /\ AllowedIn(tabs.sess[s], ev)
        /\ \E R \in TabHandle(s, ev) : TabBecomes(s, R, ev)

TabClearCompleted ==
    \E s \in Tabs, ev \in {Event("clearCompleted", 0, <<>>, "")} :
        /\ AllowedIn(tabs.sess[s], ev)
        /\ \E R \in TabHandle(s, ev) : TabBecomes(s, R, ev)

TabCheck ==
    \E s \in Tabs, ev \in {Event("check", i, <<>>, "") : i \in Positions} :
        /\ AllowedIn(tabs.sess[s], ev)
        /\ \E R \in TabHandle(s, ev) : TabBecomes(s, R, ev)

TabDelete ==
    \E s \in Tabs, ev \in {Event("del", i, <<>>, "") : i \in Positions} :
        /\ AllowedIn(tabs.sess[s], ev)
        /\ \E R \in TabHandle(s, ev) : TabBecomes(s, R, ev)

NextTabs ==
    \/ TabOpen
    \/ TabAdd
    \/ TabClearAll
    \/ TabClearCompleted
    \/ TabCheck
    \/ TabDelete

SpecTabs == InitTabs /\ [][NextTabs]_vars

\* ------------------------------------------------------------ properties
Tasks == todos.items
TextOf(t) == DictGet(t, "task")
DoneOf(t) == Truthy(DictGet(t, "done"))
IsOpen(t) == ~DoneOf(t)
IsTaskList(v) ==
    /\ v.kind = "list"
    /\ \A n \in 1..Len(v.items) :
         /\ v.items[n].kind = "dict"
         /\ DictGet(v.items[n], "task").kind = "str"
         /\ DictGet(v.items[n], "done").kind = "bool"

\* the handler of the event ran to its st.rerun()
Reran == last.reruns = 1

\* C1: whenever an action has changed the in-memory task list (settings), the
\* todos (settings) file was written by that action, and afterwards its content
\* is the serialization of, and loads back to, the in-memory value.
C1_ReadYourWrites ==
    /\ "todos" \in last.changed =>
         /\ "todos" \in last.wrote
         /\ todosFile = FileOf(Dumps(todos))
         /\ Loads(todosFile.text).ok /\ Loads(todosFile.text).val = todos
    /\ "settings" \in last.changed =>
         /\ "settings" \in last.wrote
         /\ settingsFile = FileOf(Dumps(settings))
         /\ Loads(settingsFile.text).ok /\ Loads(settingsFile.text).val = settings

C1_Witness ==
    /\ last.op = "check" /\ last.out = "ok"
    /\ last.changed = {"todos"}
    /\ Len(Tasks) = 2

\* C2: an Add whose text is non-empty after strip() appends exactly one task
\* {task: strip(text), done: False} at the tail and leaves the earlier tasks as
\* they were, also after the run st.rerun() starts; an Add whose text is empty
\* or only whitespace changes neither the list nor the todos file.
C2_AddAppendsTrimmed ==
    [][(last'.op = "add" /\ last'.out = "ok" /\ IsTaskList(todos)) =>
         IF strip(last'.text) = <<>>
         THEN todos' = todos /\ todosFile' = todosFile /\ last'.reruns = 0
         ELSE /\ last'.reruns = 1
              /\ Len(todos'.items) = Len(todos.items) + 1
              /\ SubSeq(todos'.items, 1, Len(todos.items)) = todos.items
              /\ TextOf(todos'.items[Len(todos'.items)]) = PStr(strip(last'.text))
              /\ DictGet(todos'.items[Len(todos'.items)], "done") = PBool(FALSE)
              /\ todosFile' = FileOf(Dumps(todos'))]_vars

C2_Witness ==
    /\ last.op = "add" /\ last.out = "ok" /\ Reran
    /\ last.text # strip(last.text)
    /\ Len(Tasks) = 2
    /\ TextOf(Tasks[2]) = PStr(strip(last.text))

\* C3: a click on the checkbox of task i flips the done flag of task i and
\* nothing else: the length, the order, the text of task i and every other
\* task stay as they were; and toggling task i twice (lines 212-213 applied to
\* the same position with the opposite value) gives the list back.
C3_ToggleFrame ==
    [][(last'.op = "check" /\ last'.out = "ok") =>
         /\ Len(todos'.items) = Len(todos.items)
         /\ \A n \in 1..Len(todos.items) :
              IF n = last'.idx + 1
              THEN /\ TextOf(todos'.items[n]) = TextOf(todos.items[n])
                   /\ DoneOf(todos'.items[n]) = ~DoneOf(todos.items[n])
                   /\ ToggleAt(todos', last'.idx, DoneOf(todos.items[n])).val = todos
              ELSE todos'.items[n] = todos.items[n]]_vars

C3_Witness ==
    /\ last.op = "check" /\ last.out = "ok"
    /\ last.idx = 0
    /\ Len(Tasks) = 2
    /\ DoneOf(Tasks[1]) /\ ~DoneOf(Tasks[2])

\* the sequence s without its element at 0-based position i
Without(s, i) == [n \in 1..(Len(s) - 1) |-> IF n <= i THEN s[n] ELSE s[n + 1]]

\* C4: a click on the delete button of task i removes exactly that task: after
\* the run st.rerun() starts, the list is the old list without position i, the
\* remaining tasks in their order with their text and done flag.
C4_DeleteRemovesOne ==
    [][(last'.op = "del" /\ last'.reruns = 1 /\ last'.out = "ok") =>
         todos'.items = Without(todos.items, last'.idx)]_vars

C4_Witness ==
    /\ last.op = "del" /\ Reran /\ last.out = "ok"
    /\ last.idx = 0
    /\ Len(Tasks) = 1

\* indices handed to lines 212-213 and 220-222
IndexInputs == (-(MaxTodos + 1))..(MaxTodos + 1)
OutOfRange(i) == i < 0 \/ i >= Len(todos.items)
Unchanged(R) == R.todos = todos /\ R.tf = todosFile /\ R.wrote = {}

C6_ClearCompleted ==
    [][(last'.op = "clearCompleted" /\ last'.reruns = 1 /\ last'.out = "ok"
        /\ IsTaskList(todos)) =>
         /\ todos'.items = SelectSeq(todos.items, IsOpen)
         /\ todosFile' = FileOf(Dumps(todos'))
         /\ (last.op = "clearCompleted" /\ last.reruns = 1 /\ last.out = "ok") =>
               (todos' = todos /\ todosFile' = todosFile)]_vars

C6_Witness ==
    /\ last.op = "clearCompleted" /\ Reran /\ last.out = "ok"
    /\ "todos" \in last.changed
    /\ Len(Tasks) = 1

\* the file holds a document of the shape the key expects
RightShape(file, kind) ==
    file.exists /\ Loads(file.text).ok /\ Loads(file.text).val.kind = kind

\* C7: when a session starts, a file that is missing, unparseable or of the
\* wrong shape (no list for todos, no object for settings) yields the default,
\* and the first run does not end in an exception of the script's own.
C7_LoadTolerant ==
    (last.op = "open" /\ inSession) =>
        /\ todos = IF RightShape(todosFile, "list")
                   THEN Loads(todosFile.text).val ELSE TODOS_DEFAULT
        /\ settings.kind = "dict"
        /\ last.out \in {"ok", "RequestException"}

\* C8: every task list and settings value a session holds survives the round
\* trip: what save_json writes for it parses, and load_json gives the value back.
C8_RoundTrip ==
    inSession =>
        /\ Loads(save_json(todos).text).ok
        /\ load_json(save_json(todos), TODOS_DEFAULT) = todos
        /\ Loads(save_json(settings).text).ok
        /\ load_json(save_json(settings), SETTINGS_DEFAULT) = settings

\* a new session that loaded two tasks, one of them done, and a vibe that no
\* initial file holds: both files were written by an earlier session
C8_Witness ==
    /\ last.op = "open" /\ inSession
    /\ IsTaskList(todos) /\ Len(Tasks) = 2
    /\ DoneOf(Tasks[1]) /\ ~DoneOf(Tasks[2])
    /\ settings = PDict(<<Field("vibe", PStr(<<VIBES[5]>>))>>)
    /\ todosFile = save_json(todos) /\ settingsFile = save_json(settings)

\* the file holds a complete document
Complete(file) ==
    /\ file.exists
    /\ Loads(file.text).ok
    /\ Dumps(Loads(file.text).val) = file.text

\* C9: no step leaves a file other than as it was or holding a complete
\* document: a load never sees an empty or partly written file.
C9_SaveAllOrNothing ==
    [][/\ todosFile' = todosFile \/ Complete(todosFile')
       /\ settingsFile' = settingsFile \/ Complete(settingsFile')]_vars

VibeOf(v) == IF v.kind = "dict" THEN DictGet(v, "vibe") ELSE PNone
InVibes(x) == \E n \in 1..Len(VIBES) : x = PStr(<<VIBES[n]>>)
RawVibe(v) == v.kind = "dict" /\ VibeOf(v).kind = "str" /\ ~InVibes(VibeOf(v))

\* the settings a step starts its first run with
HeldSettings ==
    IF last'.op = "open" THEN load_json(settingsFile, SETTINGS_DEFAULT) ELSE settings

\* the first run of the step ended in the weather block
AbortedAtWeather == last'.out = "RequestException" /\ last'.reruns = 0

\* C11 as claimed: while the user picks no vibe, a loaded vibe outside VIBES
\* stays in the in-memory settings and in the settings file, over any number of
\* refreshes.
C11_Original ==
    [][(last'.op \in {"open", "refresh"} /\ last'.out # "crash" /\ RawVibe(HeldSettings)) =>
         /\ settings' = HeldSettings
         /\ settingsFile' = settingsFile]_vars

\* C11 as amended: the loaded vibe outside VIBES survives only a run that ends
\* before the vibe block; the first run that reaches the block stores VIBES[0]
\* in the in-memory settings and writes the settings file, with no user action.
C11_RawVibeReplaced ==
    [][(last'.op # "pick" /\ last'.out # "crash" /\ (last'.op # "open" => inSession)
        /\ RawVibe(HeldSettings)) =>
         IF AbortedAtWeather
         THEN settings' = HeldSettings /\ settingsFile' = settingsFile
         ELSE /\ VibeOf(settings') = PStr(<<VIBES[1]>>)
              /\ "settings" \in last'.wrote
              /\ settingsFile' = save_json(settings')]_vars

C11_Witness ==
    /\ last.op = "refresh" /\ last.out = "ok"
    /\ last.changed = {"settings"}
    /\ settings = PDict(<<Field("vibe", PStr(<<VIBES[1]>>))>>)
    /\ settingsFile = save_json(settings)

\* C12 as claimed: after the first run of a session the in-memory vibe is a
\* member of VIBES and the settings file holds a member of VIBES, the default
\* having been written back when the stored value was missing or outside.
C12_Original ==
    (last.op = "open" /\ last.out # "crash") =>
        /\ InVibes(VibeOf(settings))
        /\ Complete(settingsFile)
        /\ InVibes(VibeOf(Loads(settingsFile.text).val))

\* C12 as amended: after every run that executed the vibe block the in-memory
\* vibe is a member of VIBES, and so is the vibe of the settings file whenever
\* that file exists and parses; a session that found the file missing or
\* unparseable holds the default and has written nothing back.
C12_VibeInSetAfterBlock ==
    [][(page'.sel /\ inSession') =>
         /\ InVibes(VibeOf(settings'))
         /\ (settingsFile'.exists /\ Loads(settingsFile'.text).ok) =>
               InVibes(VibeOf(Loads(settingsFile'.text).val))
         /\ (last'.op = "open"
             /\ ~(settingsFile.exists /\ Loads(settingsFile.text).ok)) =>
               /\ settings' = SETTINGS_DEFAULT
               /\ settingsFile' = settingsFile]_vars

C12_Witness ==
    /\ last.op = "open" /\ page.sel
    /\ ~settingsFile.exists
    /\ settings = SETTINGS_DEFAULT

\* the request log of a call, and whether the points lookup succeeded
PointsSucceeded == wx.net.points.net = "ok" /\ wx.net.points.status = 200

\* C13: every call sends the points request first and the forecast request at
\* most once after it; when the points lookup fails (status other than 200,
\* network error, timeout) the call returns the location failure and sends no
\* forecast request.
C13_ForecastOnlyAfterPoints ==
    wx.op = "fetch" =>
        /\ wx.res.sent \in {<<"points">>, <<"points", "forecast">>}
        /\ ~PointsSucceeded =>
             /\ wx.res.sent = <<"points">>
             /\ wx.res.exc = ""
             /\ wx.res.err = ERR_LOCATION

\* C14: no script run ends in the exception of a weather request, and the
\* vibe picked in a run is the vibe the session holds after it.
C14_WeatherNeverFatal ==
    /\ last.out # "RequestException"
    /\ (last.op = "pick" /\ last.out # "crash") => VibeOf(settings) = PStr(<<last.vibe>>)

\* the decision table: rules in order, each with its keywords
ClaimedRules ==
    <<[icon |-> "storm",
       keys |-> {<<"s", "t", "o", "r", "m">>, <<"t", "h", "u", "n", "d", "e", "r">>}],
      [icon |-> "tornado",
       keys |-> {<<"t", "o", "r", "n", "a", "d", "o">>}],
      [icon |-> "snow",
       keys |-> {<<"s", "n", "o", "w">>, <<"f", "l", "u", "r", "r", "i", "e", "s">>, <<"s", "l", "e", "e", "t">>, <<"i", "c", "e">>, <<"f", "r", "e", "e", "z", "i", "n", "g">>}],
      [icon |-> "hail",
       keys |-> {<<"h", "a", "i", "l">>}],
      [icon |-> "rain",
       keys |-> {<<"r", "a", "i", "n">>, <<"s", "h", "o", "w", "e", "r", "s">>, <<"d", "r", "i", "z", "z", "l", "e">>}],
      [icon |-> "fog",
       keys |-> {<<"f", "o", "g">>, <<"h", "a", "z", "e">>, <<"m", "i", "s", "t">>, <<"s", "m", "o", "k", "e">>}],
      [icon |-> "wind",
       keys |-> {<<"w", "i", "n", "d">>, <<"b", "r", "e", "e", "z", "y">>, <<"g", "u", "s", "t">>}],
      [icon |-> "cloud",
       keys |-> {<<"c", "l", "o", "u", "d">>, <<"o", "v", "e", "r", "c", "a", "s", "t">>}],
      [icon |-> "sun",
       keys |-> {<<"s", "u", "n">>, <<"c", "l", "e", "a", "r">>, <<"f", "a", "i", "r">>}]>>

\* the table with the third rule's "flurries" replaced by the stem "flurr"
StemRules ==
    [ClaimedRules EXCEPT ![3].keys =
        (@ \ {<<"f", "l", "u", "r", "r", "i", "e", "s">>}) \cup {<<"f", "l", "u", "r", "r">>}]

SameLetter(a, b) ==
    a = b \/ \E n \in 1..Len(UpperCase) : {a, b} = {UpperCase[n], LowerCase[n]}

\* k occurs in s, whatever the case of the letters
Occurs(k, s) ==
    \E n \in 0..(Len(s) - Len(k)) : \A j \in 1..Len(k) : SameLetter(s[n + j], k[j])

\* the icon the table gives: that of the first rule with a keyword in the
\* text, the sun rule and the no-match case deciding by temperature
TableIcon(rules, short, temp) ==
    LET text == IF short.kind = "str" THEN short.atoms ELSE <<>>
        M == {n \in 1..Len(rules) : \E k \in rules[n].keys : Occurs(k, text)}
        m == IF M = {} THEN 0 ELSE CHOOSE n \in M : \A o \in M : n <= o
        present == temp.kind = "int"
    IN IF m = 0
       THEN IF present /\ temp.n <= 32 THEN "cold"
            ELSE IF present /\ temp.n >= 90 THEN "heat"
            ELSE "neutral"
       ELSE IF rules[m].icon = "sun"
       THEN IF present /\ temp.n >= 85 THEN "heat" ELSE "sun"
       ELSE rules[m].icon

\* C15 as claimed: for every text and temperature, weather_emoji returns one
\* icon, the one the ordered table with the keywords storm/thunder, tornado,
\* snow/flurries/sleet/ice/freezing, ... gives.
C15_Original ==
    wx.op = "classify" =>
        /\ wx.emo \in Icons
        /\ wx.emo = TableIcon(ClaimedRules, wx.short, wx.temp)

\* C15 as amended: the same, with the keyword "flurr" in place of "flurries"
\* in the third rule.
C15_ClassifyIsTable ==
    wx.op = "classify" =>
        /\ wx.emo \in Icons
        /\ wx.emo = TableIcon(StemRules, wx.short, wx.temp)

\* two keywords, the later rule's first in the text: the earlier rule wins
C15_Witness ==
    /\ wx.op = "classify"
    /\ wx.short = PStr(<<"R", "a", "i", "n", " ", "S", "n", "o", "w">>)
    /\ wx.temp = PInt(95)
    /\ wx.emo = "snow"

\* the periods of the forecast document a call was answered with
SourcePeriods == DictGet(DictGet(wx.net.forecast.body, "properties"), "periods").items

FieldOr(p, key, default) == IF HasKey(p, key) THEN DictGet(p, key) ELSE default

\* C16: a call that succeeds returns min(n, k) periods, the first of the k
\* source periods in their order, each with the source's fields; a field the
\* source lacks is defaulted ("Forecast", "F", or "" for the texts) and a
\* lacking temperature is None.
C16_FirstNPeriods ==
    (wx.op = "fetch" /\ wx.res.exc = "" /\ wx.res.err = "") =>
        /\ wx.res.periods.kind = "list"
        /\ Len(wx.res.periods.items) = Min(wx.n, Len(SourcePeriods))
        /\ \A j \in 1..Len(wx.res.periods.items) :
             LET got == wx.res.periods.items[j]
                 src == SourcePeriods[j]
             IN /\ DictGet(got, "name") = FieldOr(src, "name", PStr(<<"Forecast">>))
                /\ DictGet(got, "temp") = FieldOr(src, "temperature", PNone)
                /\ DictGet(got, "temp_unit") = FieldOr(src, "temperatureUnit", PStr(<<"F">>))
                /\ DictGet(got, "short") = FieldOr(src, "shortForecast", PStr(<<>>))
                /\ DictGet(got, "wind") = FieldOr(src, "windSpeed", PStr(<<>>))
                /\ DictGet(got, "detail") = FieldOr(src, "detailedForecast", PStr(<<>>))

\* fewer periods asked for than the source has, the first with no field
C16_Witness ==
    /\ wx.op = "fetch" /\ wx.res.exc = "" /\ wx.res.err = ""
    /\ wx.n = 1
    /\ Len(SourcePeriods) = 2
    /\ SourcePeriods[1] = PDict(<<>>)
    /\ Len(wx.res.periods.items) = 1
    /\ DictGet(wx.res.periods.items[1], "temp") = PNone

\* C17: a run in which the vibe the selectbox returns equals the vibe the
\* session holds writes no settings file and leaves the in-memory settings as
\* they were.
C17_NoRedundantWrite ==
    [][(inSession /\ last'.op # "open" /\ settings.kind = "dict"
        /\ InVibes(VibeOf(settings))
        /\ (last'.op = "pick" => PStr(<<last'.vibe>>) = VibeOf(settings))) =>
         /\ "settings" \notin last'.wrote
         /\ settingsFile' = settingsFile
         /\ last'.out # "crash" => settings' = settings]_vars

C17_Witness ==
    /\ last.op = "pick" /\ last.out = "ok"
    /\ PStr(<<last.vibe>>) = VibeOf(settings)
    /\ last.wrote = {}
    /\ settingsFile.exists

\* C18: a run in which the user did nothing, coming after a run that
\* completed, leaves the task list and the todos file as they were: so does a
\* refresh, and so does the run st.rerun() starts after a delete or a Clear
\* completed, which leaves what the handler left.
C18_RefreshIsNoOp ==
    [][(last.out = "ok" /\ last'.out = "ok" /\ inSession /\ IsTaskList(todos)) =>
         /\ last'.op = "refresh" =>
               (todos' = todos /\ todosFile' = todosFile)
         /\ (last'.op = "del" /\ last'.reruns = 1) =>
               todos' = PopAt(todos, last'.idx).val
         /\ (last'.op = "clearCompleted" /\ last'.reruns = 1) =>
               todos' = PList(SelectSeq(todos.items, IsOpen))]_vars

\* the tasks a todos file holds
FileTasks(file) == Loads(file.text).val.items

\* C19: with two tabs on the same files, an Add or a checkbox click in one
\* tab loses no task of the todos file: every task the file held is still in
\* it, at its position, after the write.
C19_NoLostUpdate ==
    [][(tabs'.op \in {"add", "check"} /\ "todos" \in tabs'.wrote /\ todosFile.exists) =>
         /\ Len(FileTasks(todosFile')) >= Len(FileTasks(todosFile))
         /\ \A j \in 1..Len(FileTasks(todosFile)) :
              TextOf(FileTasks(todosFile')[j]) = TextOf(FileTasks(todosFile)[j])]_vars

====
